---- MODULE Spec2Model ----
(***************************************************************************)
(* State-machine model of classes/ShaderStructArray.py:                    *)
(*   ShaderStructElement  (referencedLists, onPropertyChanged,             *)
(*                         addListReference, removeListReference)          *)
(*   ShaderStructArray    (__init__, bindTo, objectChanged, __setitem__)   *)
(*                                                                         *)
(* Python lists are modelled as sequences (list index i is sequence        *)
(* position i + 1).  A PTA buffer is an object on a heap: ptaWrappers      *)
(* holds heap addresses, so "which buffer object" and "what it contains"   *)
(* are separate.  Python values are pairs <<type, payload>>; a float is    *)
(* kept in halves (<<"float", 3>> is 1.5) so int() and float() are real    *)
(* conversions.                                                            *)
(***************************************************************************)
EXTENDS Integers, Sequences, FiniteSets, TLC

\* ------------------------------------------------------------------ bounds
\* largest numElements an array is constructed with
MaxSize == 2

\* length of the only supported array attribute, "array<int>(6)"
ArrayLen == 6

\* ------------------------------------------------------------ the universe
Elements == {"A", "B"}
Arrays == {"S1", "S2"}
Parents == {"mat"}
UniformNames == {"Lights", "L"}
None == "None"

\* Python values
PyInt(n) == <<"int", n>>
PyFloat(h) == <<"float", h>>
PyVec(t, v) == <<t, v>>
PyList(s) == <<"list", s>>
Missing == <<"missing", 0>>

\* ---------------------------------------------------------------- schemas
\* getExposedAttributes() of the element classes used: a dict, modelled as the
\* sequence of its items() in iteration order.
LightAttrs ==
    << <<"someInt", "int">>, <<"someFloat", "float">>,
       <<"someArray", "array<int>(6)">>, <<"someColor", "vec3">> >>

ArrayFloatAttrs == << <<"someArray", "array<int>(6)">>, <<"someFloat", "float">> >>

ColorUVAttrs == << <<"someColor", "vec3">>, <<"someUV", "vec2">> >>

OddAttrs == << <<"someMat", "mat4">>, <<"someVec4", "vec4">> >>

KnownTypes == {"int", "float", "vec2", "vec3", "mat4", "array<int>(6)"}

AttrNames(attrs) == {attrs[k][1] : k \in 1..Len(attrs)}

\* ------------------------------------------------------------------ state
VARIABLES
    attributes,       \* [Arrays -> schema]            self.attributes
    size,             \* [Arrays -> Nat]               self.size
    assignedObjects,  \* [Arrays -> Seq(Elements+None)] self.assignedObjects
    ptaWrappers,      \* [Arrays -> [name -> Seq(addr)]] self.ptaWrappers
    parents,          \* [Arrays -> [Parents -> name]]  self.parents
    heap,             \* Seq(buffer): the PTA objects, by address
    referencedLists,  \* [Elements -> Seq(Arrays)]      element.referencedLists
    fields,           \* [Elements -> [name -> value]]  the elements' attributes
    inputs,           \* [Parents -> set of <<name, addr>>]: the shader inputs set
    exc               \* the exception the latest call raised, None if it returned

vars ==
    <<attributes, size, assignedObjects, ptaWrappers, parents, heap,
      referencedLists, fields, inputs, exc>>

\* ------------------------------------------------------------ construction
\* __init__, lines 94-116: the buffer class and length chosen for a type tag.
\* arrayType and numElements start as PTAFloat and 1 and are overwritten by the
\* branch that matches; no branch rejects a tag.
ArrayTypeOf(attrType) ==
    IF attrType = "mat4" THEN <<"PTAMat4", 1>>
    ELSE IF attrType = "int" THEN <<"PTAInt", 1>>
    ELSE IF attrType = "array<int>(6)" THEN <<"PTAInt", ArrayLen>>
    ELSE IF attrType = "float" THEN <<"PTAFloat", 1>>
    ELSE IF attrType = "vec2" THEN <<"PTALVecBase2f", 1>>
    ELSE IF attrType = "vec3" THEN <<"PTALVecBase3f", 1>>
    ELSE <<"PTAFloat", 1>>

\* arrayType.emptyArray(numElements): a new buffer of default elements
EmptyArray(arrayType, numElements) ==
    [type |-> arrayType, data |-> [i \in 1..numElements |-> <<"default", arrayType>>]]

\* __init__, lines 94-119, on a heap that holds `base` buffers already: the
\* buffers it allocates, one per attribute and slot, in allocation order
NewBuffers(attrs, numElements) ==
    [a \in 1..(Len(attrs) * numElements) |->
        LET t == ArrayTypeOf(attrs[((a - 1) \div numElements) + 1][2])
        IN EmptyArray(t[1], t[2])]

\* NewWrappers with one buffer per attribute, which every slot refers to
NewWrappers_Shared(attrs, numElements, base) ==
    [name \in AttrNames(attrs) |->
        LET k == CHOOSE j \in 1..Len(attrs) : attrs[j][1] = name
        IN [i \in 1..numElements |-> base + (k - 1) * numElements + 1]]

\* self.ptaWrappers after __init__: name -> the addresses of its slots' buffers
NewWrappers(attrs, numElements, base) ==
    [name \in AttrNames(attrs) |->
        LET k == CHOOSE j \in 1..Len(attrs) : attrs[j][1] = name
        IN [i \in 1..numElements |-> base + (k - 1) * numElements + i]]

\* S1 is constructed first, S2 second: the number of buffers on the heap when
\* the construction of s begins
HeapBase(s) == IF s = "S1" THEN 0 ELSE Len(attributes["S1"]) * size["S1"]

\* ---------------------------------------------------------------- elements
\* The values an element's attributes take (the element's own code sets them).
LightFields ==
    << [someInt |-> PyInt(3), someFloat |-> PyInt(2),
        someArray |-> PyList(<<1, 2, 3, 4, 5, 6>>),
        someColor |-> PyVec("vec3", <<1, 0, 0>>)],
       [someInt |-> PyFloat(-5), someFloat |-> PyFloat(3),
        someArray |-> PyList(<<6, 5, 4, 3, 2, 1, 0>>),
        someColor |-> PyVec("vec3", <<0, 1, 0>>)] >>

ArrayFloatFields ==
    << [someArray |-> PyList(<<1, 2, 3, 4, 5, 6>>), someFloat |-> PyInt(2)],
       [someArray |-> PyList(<<9, 8, 7>>), someFloat |-> PyFloat(3)] >>

ColorUVFields ==
    << [someColor |-> PyVec("vec3", <<1, 0, 0>>), someUV |-> PyVec("vec2", <<0, 1>>)],
       [someColor |-> PyVec("vec3", <<0, 1, 0>>), someUV |-> Missing] >>

OddFields ==
    << [someMat |-> PyVec("mat4", 1), someVec4 |-> PyVec("vec4", <<1, 1, 1, 1>>)],
       [someMat |-> PyVec("mat4", 2), someVec4 |-> PyVec("vec4", <<0, 0, 0, 1>>)] >>

FieldSeq(attrs) ==
    IF attrs = LightAttrs THEN LightFields
    ELSE IF attrs = ArrayFloatAttrs THEN ArrayFloatFields
    ELSE IF attrs = ColorUVAttrs THEN ColorUVFields
    ELSE OddFields

\* the attribute values an element may be given; the first are those its
\* constructor sets
FieldsOf(attrs) == {FieldSeq(attrs)[k] : k \in 1..Len(FieldSeq(attrs))}

InitFields(attrs) == FieldSeq(attrs)[1]

\* ------------------------------------------------------------------- Init
\* Both arrays are built for one element class, S1 and S2 with one of the sizes
\* given for each.
InitWith(classes, sizes1, sizes2) ==
    \E ct \in classes : \E n1 \in sizes1 : \E n2 \in sizes2 :
        /\ attributes = [s \in Arrays |-> ct]
        /\ size = [s \in Arrays |-> IF s = "S1" THEN n1 ELSE n2]
        /\ assignedObjects =
              [s \in Arrays |-> [i \in 1..(IF s = "S1" THEN n1 ELSE n2) |-> None]]
        /\ heap = NewBuffers(ct, size["S1"]) \o NewBuffers(ct, size["S2"])
        /\ ptaWrappers = [s \in Arrays |-> NewWrappers(ct, size[s], HeapBase(s))]
        /\ parents = [s \in Arrays |-> [p \in Parents |-> None]]
        /\ referencedLists = [e \in Elements |-> <<>>]
        /\ fields = [e \in Elements |-> InitFields(ct)]
        /\ inputs = [p \in Parents |-> {}]
        /\ exc = None

\* -------------------------------------------------------- the program state
\* The part of the state the element and array methods read and write, as one
\* value, so that a method is a function from state to state.  exc is the
\* exception the call raised (None: it returned).
State ==
    [assignedObjects |-> assignedObjects, referencedLists |-> referencedLists,
     heap |-> heap, ptaWrappers |-> ptaWrappers, fields |-> fields, exc |-> None]

Raise(st, e) == [st EXCEPT !.exc = e]

\* Python's `x in list` and list.index(x)
Contains(seq, x) == \E k \in 1..Len(seq) : seq[k] = x

IndexOf(seq, x) == (CHOOSE k \in 1..Len(seq) : seq[k] = x /\ \A j \in 1..(k - 1) : seq[j] # x) - 1

\* list.remove(x): drops the first occurrence
Remove(seq, x) ==
    LET k == IndexOf(seq, x) + 1
    IN [j \in 1..(Len(seq) - 1) |-> IF j < k THEN seq[j] ELSE seq[j + 1]]

\* ------------------------------------------------------ ShaderStructElement
\* addListReference without the membership test of line 50
addListReference_NoTest(lists, structArray) == Append(lists, structArray)

\* addListReference, lines 46-51
addListReference(lists, structArray) ==
    IF ~Contains(lists, structArray) THEN Append(lists, structArray) ELSE lists

\* removeListReference that leaves the list as it is
removeListReference_Keep(lists, structArray) == lists

\* removeListReference, lines 53-58
removeListReference(lists, structArray) ==
    IF Contains(lists, structArray) THEN Remove(lists, structArray) ELSE lists

\* ------------------------------------------------------------- conversions
\* int(objValue): an int as it is, a float truncated towards zero
PyIntOf(v) ==
    IF v[1] = "int" THEN v
    ELSE IF v[2] >= 0 THEN PyInt(v[2] \div 2) ELSE PyInt(-((-v[2]) \div 2))

\* float(objValue): a float as it is, an int as the float of the same value
PyFloatOf(v) == IF v[1] = "float" THEN v ELSE PyFloat(2 * v[2])

IsNumber(v) == v[1] \in {"int", "float"}

\* -------------------------------------------------------- ShaderStructArray
\* __setitem__, lines 199-200: for i in xrange(6): buffer[i] = objValue[i],
\* from position i on; objValue[i] past the end of the value raises IndexError
RECURSIVE WriteArray(_, _, _, _)
WriteArray(st, addr, objValue, i) ==
    IF i >= ArrayLen THEN st
    ELSE IF i >= Len(objValue[2]) THEN Raise(st, "IndexError")
    ELSE WriteArray([st EXCEPT !.heap[addr].data[i + 1] = PyInt(objValue[2][i + 1])],
                    addr, objValue, i + 1)

\* SetAttribute writing into a buffer it allocates, which replaces the slot's
SetAttribute_NewBuffer(st, s, index, value, attrName, attrType) ==
    LET objValue == st.fields[value][attrName]
        addr == Len(st.heap) + 1
    IN  IF objValue = Missing THEN Raise(st, "AttributeError")
        ELSE [st EXCEPT !.heap = Append(@, [type |-> ArrayTypeOf(attrType)[1],
                                            data |-> <<objValue>>]),
                        !.ptaWrappers[s][attrName][index + 1] = addr]

\* SetAttribute without the casts of lines 194-197
SetAttribute_NoCast(st, s, index, value, attrName, attrType) ==
    LET objValue == st.fields[value][attrName]
        addr == st.ptaWrappers[s][attrName][index + 1]
    IN  IF objValue = Missing THEN Raise(st, "AttributeError")
        ELSE IF attrType = "array<int>(6)" THEN WriteArray(st, addr, objValue, 0)
        ELSE [st EXCEPT !.heap[addr].data[1] = objValue]

\* __setitem__, lines 191-204: one turn of the loop over the attributes
SetAttribute(st, s, index, value, attrName, attrType) ==
    LET objValue == st.fields[value][attrName]
        addr == st.ptaWrappers[s][attrName][index + 1]
    IN  IF objValue = Missing THEN Raise(st, "AttributeError")
        ELSE IF attrType \in {"float", "int"} /\ ~IsNumber(objValue)
        THEN Raise(st, "TypeError")
        ELSE LET cast == IF attrType = "float" THEN PyFloatOf(objValue)
                         ELSE IF attrType = "int" THEN PyIntOf(objValue)
                         ELSE objValue
             IN  IF attrType = "array<int>(6)" THEN WriteArray(st, addr, cast, 0)
                 ELSE IF attrType = "mat4" THEN [st EXCEPT !.heap[addr].data[1] = cast]
                 ELSE [st EXCEPT !.heap[addr].data[1] = cast]

\* __setitem__, lines 189-204: the loop over self.attributes.items(), from its
\* k-th item on; an exception ends it
RECURSIVE SetAttributes(_, _, _, _, _)
SetAttributes(st, s, index, value, k) ==
    IF k > Len(attributes[s]) \/ st.exc # None THEN st
    ELSE SetAttributes(
            SetAttribute(st, s, index, value, attributes[s][k][1], attributes[s][k][2]),
            s, index, value, k + 1)

\* __setitem__ with the range test of lines 174-175 after the reference
\* bookkeeping of lines 177-185
SetItem_LateRangeTest(st, s, index, value) ==
    IF value = None THEN Raise(st, "AttributeError")
    ELSE IF index < 0 \/ index >= size[s]
    THEN Raise([st EXCEPT !.referencedLists[value] = addListReference(@, s)], "Exception")
    ELSE
        LET oldObject == st.assignedObjects[s][index + 1]
            st1 == IF oldObject # None /\ oldObject # value
                   THEN [st EXCEPT !.referencedLists[oldObject] =
                                        removeListReference(@, s)]
                   ELSE st
        IN  SetAttributes(
                [st1 EXCEPT !.referencedLists[value] = addListReference(@, s),
                            !.assignedObjects[s][index + 1] = value],
                s, index, value, 1)

\* __setitem__ that takes None: it empties the slot and leaves the lists alone
SetItem_NoneVacates(st, s, index, value) ==
    IF index < 0 \/ index >= size[s] THEN Raise(st, "Exception")
    ELSE IF value = None THEN [st EXCEPT !.assignedObjects[s][index + 1] = None]
    ELSE
        LET oldObject == st.assignedObjects[s][index + 1]
            st1 == IF oldObject # None /\ oldObject # value
                   THEN [st EXCEPT !.referencedLists[oldObject] =
                                        removeListReference(@, s)]
                   ELSE st
        IN  SetAttributes(
                [st1 EXCEPT !.referencedLists[value] = addListReference(@, s),
                            !.assignedObjects[s][index + 1] = value],
                s, index, value, 1)

\* __setitem__ with lines 184 and 185 in the other order: the slot is stored
\* before value.addListReference is called
SetItem_StoreFirst(st, s, index, value) ==
    IF index < 0 \/ index >= size[s] THEN Raise(st, "Exception")
    ELSE
        LET oldObject == st.assignedObjects[s][index + 1]
            st1 == IF value # None /\ oldObject # None /\ oldObject # value
                   THEN [st EXCEPT !.referencedLists[oldObject] =
                                        removeListReference(@, s)]
                   ELSE st
            st2 == [st1 EXCEPT !.assignedObjects[s][index + 1] = value]
        IN  IF value = None THEN Raise(st2, "AttributeError")
            ELSE SetAttributes(
                    [st2 EXCEPT !.referencedLists[value] = addListReference(@, s)],
                    s, index, value, 1)

\* __setitem__, lines 170-204
SetItem(st, s, index, value) ==
    IF index < 0 \/ index >= size[s] THEN Raise(st, "Exception")
    ELSE
        LET oldObject == st.assignedObjects[s][index + 1]
            st1 == IF value # None /\ oldObject # None /\ oldObject # value
                   THEN [st EXCEPT !.referencedLists[oldObject] =
                                        removeListReference(@, s)]
                   ELSE st
        IN  IF value = None THEN Raise(st1, "AttributeError")
            ELSE SetAttributes(
                    [st1 EXCEPT !.referencedLists[value] = addListReference(@, s),
                                !.assignedObjects[s][index + 1] = value],
                    s, index, value, 1)

\* objectChanged that re-assigns the first slot of the array
ObjectChanged_FirstSlot(st, s, obj) ==
    IF Contains(st.assignedObjects[s], obj) THEN SetItem(st, s, 0, obj) ELSE st

\* objectChanged, lines 164-168
ObjectChanged(st, s, obj) ==
    IF Contains(st.assignedObjects[s], obj)
    THEN SetItem(st, s, IndexOf(st.assignedObjects[s], obj), obj)
    ELSE st

\* onPropertyChanged, lines 39-44: the loop over self.referencedLists from its
\* k-th item on (the list is read as the loop goes); an exception ends it
RECURSIVE OnPropertyChangedFrom(_, _, _)
OnPropertyChangedFrom(st, e, k) ==
    IF k > Len(st.referencedLists[e]) \/ st.exc # None THEN st
    ELSE OnPropertyChangedFrom(ObjectChanged(st, st.referencedLists[e][k], e), e, k + 1)

OnPropertyChanged(st, e) == OnPropertyChangedFrom(st, e, 1)

\* str(index): the decimal literal of an integer
Digits == <<"0", "1", "2", "3", "4", "5", "6", "7", "8", "9">>

RECURSIVE Str(_)
Str(n) ==
    IF n < 0 THEN "-" \o Str(-n)
    ELSE IF n < 10 THEN Digits[n + 1]
    ELSE Str(n \div 10) \o Digits[(n % 10) + 1]

\* InputName counting the slots from 1
InputName_OneBased(uniformName, index, attrName) ==
    uniformName \o "[" \o Str(index + 1) \o "" \o "]" \o "." \o attrName

\* bindTo, lines 158-159
InputName(uniformName, index, attrName) ==
    uniformName \o "[" \o Str(index) \o "" \o "]" \o "." \o attrName

\* bindTo, lines 156-162: the setShaderInput calls, in order, as <<name, addr>>
BindCalls(s, uniformName) ==
    [c \in 1..(size[s] * Len(attributes[s])) |->
        LET index == (c - 1) \div Len(attributes[s])
            attrName == attributes[s][((c - 1) % Len(attributes[s])) + 1][1]
        IN  <<InputName(uniformName, index, attrName),
              ptaWrappers[s][attrName][index + 1]>>]

\* parent.setShaderInput(name, value): the input of that name is set to value
SetShaderInput(ins, call) == {i \in ins : i[1] # call[1]} \cup {call}

RECURSIVE SetShaderInputs(_, _, _)
SetShaderInputs(ins, cs, k) ==
    IF k > Len(cs) THEN ins ELSE SetShaderInputs(SetShaderInput(ins, cs[k]), cs, k + 1)

\* ---------------------------------------------------------------- actions
Commit(st) ==
    /\ assignedObjects' = st.assignedObjects
    /\ referencedLists' = st.referencedLists
    /\ heap' = st.heap
    /\ ptaWrappers' = st.ptaWrappers

\* array[index] = value
SetSlot(s, index, value) ==
    \E st \in {SetItem(State, s, index, value)} :
        /\ Commit(st)
        /\ exc' = st.exc
        /\ UNCHANGED <<attributes, size, parents, fields, inputs>>

\* element.onPropertyChanged()
NotifyChanged(e) ==
    \E st \in {OnPropertyChanged(State, e)} :
        /\ Commit(st)
        /\ exc' = st.exc
        /\ UNCHANGED <<attributes, size, parents, fields, inputs>>

\* SetFields with a hook that notifies the arrays after the write
SetFields_AutoNotify(e, f) ==
    /\ f # fields[e]
    /\ fields' = [fields EXCEPT ![e] = f]
    /\ \E st \in {OnPropertyChanged([State EXCEPT !.fields[e] = f], e)} :
          Commit(st) /\ exc' = st.exc
    /\ UNCHANGED <<attributes, size, parents, inputs>>

\* the element's own code sets its attributes: a plain attribute write, the
\* class defines no __setattr__ and no property
SetFields(e, f) ==
    /\ f # fields[e]
    /\ fields' = [fields EXCEPT ![e] = f]
    /\ exc' = None
    /\ UNCHANGED <<attributes, size, assignedObjects, ptaWrappers, parents, heap,
                   referencedLists, inputs>>

\* array.bindTo(parent, uniformName)
BindTo(s, parent, uniformName) ==
    /\ parents' = [parents EXCEPT ![s][parent] = uniformName]
    /\ inputs' = [inputs EXCEPT ![parent] = SetShaderInputs(@, BindCalls(s, uniformName), 1)]
    /\ exc' = None
    /\ UNCHANGED <<attributes, size, assignedObjects, ptaWrappers, heap,
                   referencedLists, fields>>

\* Elements and arrays: assignments, notifications and attribute writes.  S1
\* has up to MaxSize slots for the class whose elements are always well formed,
\* one fewer for the classes whose elements can lack an attribute or hold a
\* short array; S2 has one slot.
Init ==
    \/ InitWith({LightAttrs}, 1..MaxSize, {1})
    \/ InitWith({ArrayFloatAttrs, ColorUVAttrs}, 1..(MaxSize - 1), {1})

NextArray ==
    \/ \E s \in Arrays : \E index \in -1..size[s] : \E value \in Elements \cup {None} :
          SetSlot(s, index, value)
    \/ \E e \in Elements : NotifyChanged(e)
    \/ \E e \in Elements : \E f \in FieldsOf(attributes["S1"]) : SetFields(e, f)

SpecArray == Init /\ [][NextArray]_vars

\* Assignments that return, and nothing else.
NextSetSlot ==
    \E s \in Arrays : \E index \in -1..size[s] : \E value \in Elements \cup {None} :
        SetSlot(s, index, value) /\ exc' = None

InitSetSlot == InitWith({LightAttrs, ArrayFloatAttrs, ColorUVAttrs}, 1..MaxSize, {1})

SpecSetSlot == InitSetSlot /\ [][NextSetSlot]_vars

\* The whole interface, bindTo included, for a class with a type tag the
\* constructor has no branch for; S2 is an array of no slots.
InitBind == InitWith({OddAttrs}, 1..MaxSize, {0})

NextBind ==
    \/ \E s \in Arrays : \E index \in -1..size[s] : \E value \in Elements \cup {None} :
          SetSlot(s, index, value)
    \/ \E e \in Elements : NotifyChanged(e)
    \/ \E e \in Elements : \E f \in FieldsOf(attributes["S1"]) : SetFields(e, f)
    \/ \E s \in Arrays : \E parent \in Parents : \E uniformName \in UniformNames :
          BindTo(s, parent, uniformName)

SpecBind == InitBind /\ [][NextBind]_vars

\* ------------------------------------------------------- what claims refer to
\* A claim about a method is stated of the method's result in every reachable
\* state, for every argument: State is the state the call is made in, and the
\* action of the method commits exactly that result.

\* the contents a buffer of an attribute of type attrType holds when it is a
\* snapshot of the attribute value v
Snapshot(attrType, v) ==
    IF attrType = "array<int>(6)" THEN [i \in 1..ArrayLen |-> PyInt(v[2][i])]
    ELSE IF attrType = "int" THEN <<PyIntOf(v)>>
    ELSE IF attrType = "float" THEN <<PyFloatOf(v)>>
    ELSE <<v>>

\* in st, the buffer of attribute name at slot index of array s
Buffer(st, s, name, index) == st.heap[st.ptaWrappers[s][name][index + 1]]

\* in st, slot index of array s holds a snapshot of the attributes flds
IsSnapshot(st, s, index, flds) ==
    \A k \in 1..Len(attributes[s]) :
        Buffer(st, s, attributes[s][k][1], index).data =
            Snapshot(attributes[s][k][2], flds[attributes[s][k][1]])

\* the buffers of slot index of array s are the same in st1 and st2
SameSlot(st1, st2, s, index) ==
    \A name \in AttrNames(attributes[s]) :
        Buffer(st1, s, name, index) = Buffer(st2, s, name, index)

Slots(s) == 0..(size[s] - 1)

Held(st, s, e) == Contains(st.assignedObjects[s], e)

Listed(st, e, s) == Contains(st.referencedLists[e], s)

\* ------------------------------------------------------------------- C1
\* C1: when array[index] = element returns, every declared attribute's buffer
\* at that index holds the element's value at the time of the call: int(value)
\* for an "int" attribute, float(value) for a "float" one, the first 6 entries
\* one by one for "array<int>(6)", the value itself otherwise.
C1_SetSlotSnapshots ==
    \A s \in Arrays : \A index \in Slots(s) : \A value \in Elements :
        \A st \in {SetItem(State, s, index, value)} :
            st.exc = None => IsSnapshot(st, s, index, fields[value])

\* an assignment returned and the slot holds int(-2.5) = -2 and the six entries
C1_Witness ==
    \E s \in Arrays : \E index \in Slots(s) : \E e \in Elements :
        /\ exc = None
        /\ attributes[s] = LightAttrs
        /\ assignedObjects[s][index + 1] = e
        /\ fields[e].someInt = PyFloat(-5)
        /\ Buffer(State, s, "someInt", index).data = <<PyInt(-2)>>
        /\ Buffer(State, s, "someArray", index).data =
              <<PyInt(6), PyInt(5), PyInt(4), PyInt(3), PyInt(2), PyInt(1)>>

\* ------------------------------------------------------------------- C6
\* C6: array[index] = value with index < 0 or index >= size raises and changes
\* nothing: no slot, no buffer, no element's referencedLists.
C6_OutOfBoundsNoMutation ==
    \A s \in Arrays : \A index \in {-1, size[s]} : \A value \in Elements \cup {None} :
        SetItem(State, s, index, value) = Raise(State, "Exception")

\* an out-of-range assignment was refused on arrays that hold elements
C6_Witness ==
    /\ exc = "Exception"
    /\ \E s \in Arrays : \E e \in Elements : Held(State, s, e) /\ Listed(State, e, s)
    /\ \E s \in Arrays : \E e \in Elements : ~Held(State, s, e) /\ ~Listed(State, e, s)

\* ------------------------------------------------------------------- C8
\* C8: array[index] = element is idempotent: done again right after it
\* returned, with the element's attributes as they were, it leaves the
\* buffers, the slots and every referencedLists as the first call left them.
C8_SetSlotIdempotent ==
    \A s \in Arrays : \A index \in Slots(s) : \A value \in Elements :
        \A st \in {SetItem(State, s, index, value)} :
            st.exc = None => SetItem(st, s, index, value) = st

\* an assignment returned; the array is listed once by the element it holds
C8_Witness ==
    \E s \in Arrays : \E index \in Slots(s) : \E e \in Elements :
        /\ exc = None
        /\ assignedObjects[s][index + 1] = e
        /\ fields[e] # InitFields(attributes[s])
        /\ IsSnapshot(State, s, index, fields[e])
        /\ Cardinality({k \in 1..Len(referencedLists[e]) : referencedLists[e][k] = s}) = 1

\* ------------------------------------------------------------------- C2
\* C2: when an element held in two slots of one array has notified the array
\* (onPropertyChanged returned), both slots hold a snapshot of the element's
\* attributes as they are now.
C2_NotifyRefreshesEverySlot ==
    \A e \in Elements : \A st \in {OnPropertyChanged(State, e)} :
        st.exc = None =>
            \A s \in Arrays : \A i \in Slots(s) : \A j \in Slots(s) :
                (i # j /\ assignedObjects[s][i + 1] = e /\ assignedObjects[s][j + 1] = e)
                    => IsSnapshot(st, s, i, fields[e]) /\ IsSnapshot(st, s, j, fields[e])

\* ------------------------------------------------------------------- C3
\* C3: after any sequence of assignments that returned, an array is in an
\* element's referencedLists exactly if it holds the element in some slot.
C3_ListedIffHeld ==
    \A e \in Elements : \A s \in Arrays : Listed(State, e, s) <=> Held(State, s, e)

\* ------------------------------------------------------------------- C4
\* C4: when slot index holds A, A is in no other slot of the array, and
\* array[index] = B returns for another element B, the array is no longer in
\* A's referencedLists and is in B's, and A.onPropertyChanged() then leaves
\* every buffer of the array as it is; so does the notification of any element
\* that does not list the array.
C4_Reassign ==
    /\ \A s \in Arrays : \A index \in Slots(s) : \A B \in Elements :
          \A A \in {assignedObjects[s][index + 1]} \ {None, B} :
              (\A j \in Slots(s) \ {index} : assignedObjects[s][j + 1] # A) =>
                  \A st \in {SetItem(State, s, index, B)} :
                      st.exc = None =>
                          /\ ~Listed(st, A, s)
                          /\ Listed(st, B, s)
                          /\ \A after \in {OnPropertyChanged(st, A)} :
                                \A i \in Slots(s) : SameSlot(after, st, s, i)
    /\ \A e \in Elements : \A s \in Arrays :
          ~Listed(State, e, s) =>
              \A after \in {OnPropertyChanged(State, e)} :
                  \A i \in Slots(s) : SameSlot(after, State, s, i)

\* B took a slot of S1 from A: S1 holds B and not A, lists follow, and S2, which
\* holds A, has A's new attributes while S1's slot has not
C4_Witness ==
    \E index \in Slots("S1") : \E A \in Elements : \E B \in Elements \ {A} :
        /\ exc = None
        /\ assignedObjects["S1"][index + 1] = B
        /\ ~Held(State, "S1", A) /\ ~Listed(State, A, "S1") /\ Listed(State, B, "S1")
        /\ assignedObjects["S2"][1] = A
        /\ fields[A] # InitFields(attributes["S1"])
        /\ IsSnapshot(State, "S2", 0, fields[A])
        /\ ~IsSnapshot(State, "S1", index, fields[A])

\* ------------------------------------------------------------------- C5
\* C5: when an element held in one slot of each of the two arrays has notified
\* them (onPropertyChanged returned), its slot in each array holds a snapshot
\* of its attributes as they are now, and every other slot is as it was.
C5_NotifyUpdatesBothArrays ==
    \A e \in Elements :
        (\A s \in Arrays : Cardinality({i \in Slots(s) : assignedObjects[s][i + 1] = e}) = 1)
            => \A st \in {OnPropertyChanged(State, e)} :
                  st.exc = None =>
                      \A s \in Arrays : \A i \in Slots(s) :
                          IF assignedObjects[s][i + 1] = e
                          THEN IsSnapshot(st, s, i, fields[e])
                          ELSE SameSlot(st, State, s, i)

\* ------------------------------------------------------------------- C7
\* C7: an array is not constructed for a schema with a type tag outside int,
\* float, vec2, vec3, mat4, array<int>(6): no buffer exists for an attribute
\* of such a type.
C7_UnknownTagRejected ==
    \A s \in Arrays : \A k \in 1..Len(attributes[s]) :
        attributes[s][k][2] \notin KnownTypes
            => \A i \in Slots(s) : (i + 1) \notin DOMAIN ptaWrappers[s][attributes[s][k][1]]

\* ------------------------------------------------------------------- C9
\* the name the shader knows attribute attrName of slot index by
ShaderName(baseName, index, attrName) ==
    baseName \o "[" \o ToString(index) \o "]." \o attrName

ShaderInputs(s, baseName) ==
    {<<ShaderName(baseName, index, name), ptaWrappers[s][name][index + 1]>> :
        index \in Slots(s), name \in AttrNames(attributes[s])}

\* C9: bindTo(parent, baseName) calls setShaderInput exactly once for every
\* slot index, occupied or not, and declared attribute, with the name
\* baseName[index].attribute (index in decimal, from 0) and that slot's buffer
\* of the attribute, and makes no other call.
C9_BindRegistersEverySlot ==
    \A s \in Arrays : \A baseName \in UniformNames : \A cs \in {BindCalls(s, baseName)} :
        /\ Len(cs) = Cardinality(ShaderInputs(s, baseName))
        /\ \A in \in ShaderInputs(s, baseName) :
              Cardinality({k \in 1..Len(cs) : cs[k] = in}) = 1
        /\ \A parent \in Parents :
              SetShaderInputs(inputs[parent], cs, 1) =
                  {i \in inputs[parent] :
                      \A in \in ShaderInputs(s, baseName) : in[1] # i[1]}
                  \cup ShaderInputs(s, baseName)

\* S1 is bound as Lights with slot 0 occupied and slot 1 empty, both registered
C9_Witness ==
    \E parent \in Parents :
        /\ parents["S1"][parent] = "Lights"
        /\ size["S1"] = 2
        /\ assignedObjects["S1"][1] # None
        /\ assignedObjects["S1"][2] = None
        /\ <<"Lights[0].someMat", ptaWrappers["S1"]["someMat"][1]>> \in inputs[parent]
        /\ <<"Lights[1].someVec4", ptaWrappers["S1"]["someVec4"][2]>> \in inputs[parent]

\* ------------------------------------------------------------------- C10
\* C10: the buffer of every attribute and slot is the one the constructor
\* made, with its class and length, in every reachable state; no assignment or
\* notification replaces one; so when array[index] = element returns, each
\* buffer of the slot that a parent has as a shader input holds the new value.
C10_BuffersKeepIdentity ==
    /\ ptaWrappers = [s \in Arrays |-> NewWrappers(attributes[s], size[s], HeapBase(s))]
    /\ Len(heap) = Len(NewBuffers(attributes["S1"], size["S1"] + size["S2"]))
    /\ \A a \in 1..Len(heap) :
          /\ heap[a].type = NewBuffers(attributes["S1"], size["S1"] + size["S2"])[a].type
          /\ Len(heap[a].data) = Len(NewBuffers(attributes["S1"], size["S1"] + size["S2"])[a].data)
    /\ \A e \in Elements : OnPropertyChanged(State, e).ptaWrappers = ptaWrappers
    /\ \A s \in Arrays : \A index \in Slots(s) : \A value \in Elements :
          \A st \in {SetItem(State, s, index, value)} :
              /\ st.ptaWrappers = ptaWrappers
              /\ st.exc = None =>
                    \A parent \in Parents : \A in \in inputs[parent] :
                        \A k \in 1..Len(attributes[s]) :
                            in[2] = ptaWrappers[s][attributes[s][k][1]][index + 1]
                                => st.heap[in[2]].data =
                                      Snapshot(attributes[s][k][2],
                                               fields[value][attributes[s][k][1]])

\* a parent bound to S1 has, as its inputs for a slot, buffers that hold the
\* attributes the slot's element was given after its construction
C10_Witness ==
    \E parent \in Parents : \E index \in Slots("S1") : \E e \in Elements :
        /\ exc = None
        /\ parents["S1"][parent] # None
        /\ assignedObjects["S1"][index + 1] = e
        /\ fields[e] # InitFields(attributes["S1"])
        /\ IsSnapshot(State, "S1", index, fields[e])
        /\ \A name \in AttrNames(attributes["S1"]) :
              <<InputName(parents["S1"][parent], index, name),
                ptaWrappers["S1"][name][index + 1]>> \in inputs[parent]

\* ------------------------------------------------------------------- C11
\* C11: a write to an attribute of an element, held in a slot or not, changes
\* no buffer of any array and replaces none: with no assignment and no
\* notification after it, the buffers keep the snapshot they had.
C11_NoDirtyTracking ==
    [][fields' # fields => heap' = heap /\ ptaWrappers' = ptaWrappers]_vars

\* an element held in a slot was given new attributes after the assignment:
\* the slot still holds the snapshot of the attributes it was constructed with
C11_Witness ==
    \E s \in Arrays : \E index \in Slots(s) : \E e \in Elements :
        /\ exc = None
        /\ assignedObjects[s][index + 1] = e
        /\ fields[e] # InitFields(attributes[s])
        /\ IsSnapshot(State, s, index, InitFields(attributes[s]))
        /\ Listed(State, e, s)

\* ------------------------------------------------------------------- C12
\* the element lacks an attribute that the schema of s declares
LacksAttribute(s, value) ==
    \E k \in 1..Len(attributes[s]) : fields[value][attributes[s][k][1]] = Missing

\* C12: when array[index] = element raises because the element lacks a
\* declared attribute, nothing was done: the slot holds what it held, every
\* referencedLists is as before the call, and no buffer of the slot was
\* written.
C12_MissingAttributeNoMutation ==
    \A s \in Arrays : \A index \in Slots(s) : \A value \in Elements :
        LacksAttribute(s, value) =>
            \A st \in {SetItem(State, s, index, value)} :
                /\ st.exc = "AttributeError"
                /\ st.assignedObjects = assignedObjects
                /\ st.referencedLists = referencedLists
                /\ SameSlot(st, State, s, index)

\* ------------------------------------------------------------------- C13
\* the attributes flds have a value a snapshot can be taken of for every
\* attribute that the schema of s declares
CanSnapshot(s, flds) ==
    \A k \in 1..Len(attributes[s]) :
        /\ flds[attributes[s][k][1]] # Missing
        /\ attributes[s][k][2] = "array<int>(6)"
              => Len(flds[attributes[s][k][1]][2]) >= ArrayLen

\* C13: whatever array[index] = element did, returned or raised, in any
\* reachable state: if the slot then stores the element, every buffer of the
\* slot holds the coerced value the element has for its attribute at this
\* assignment; the slot never stores the element over buffers that hold
\* something else.
C13_SlotAndBuffersAgree ==
    \A s \in Arrays : \A index \in Slots(s) : \A value \in Elements :
        \A st \in {SetItem(State, s, index, value)} :
            st.assignedObjects[s][index + 1] = value =>
                CanSnapshot(s, fields[value]) /\ IsSnapshot(st, s, index, fields[value])

\* ------------------------------------------------------------------- C14
\* in st, every buffer of slot index of array s is as emptyArray made it
IsDefault(st, s, index) ==
    \A k \in 1..Len(attributes[s]) :
        Buffer(st, s, attributes[s][k][1], index) =
            EmptyArray(ArrayTypeOf(attributes[s][k][2])[1], ArrayTypeOf(attributes[s][k][2])[2])

\* C14: array[index] = value, with any index and value, returned or raised,
\* changes slot index of that array only: every other slot of the array and
\* every slot of the other array stores what it stored and has the buffer
\* contents it had; and a slot that stores no element has the default buffers
\* of its construction.
C14_OnlyTheSlot ==
    /\ \A s \in Arrays : \A index \in -1..size[s] : \A value \in Elements \cup {None} :
          \A st \in {SetItem(State, s, index, value)} :
              \A t \in Arrays : \A j \in Slots(t) :
                  (t # s \/ j # index) =>
                      /\ st.assignedObjects[t][j + 1] = assignedObjects[t][j + 1]
                      /\ SameSlot(st, State, t, j)
    /\ \A s \in Arrays : \A j \in Slots(s) :
          assignedObjects[s][j + 1] = None => IsDefault(State, s, j)

\* slot 0 of the two-slot S1 was assigned and holds the element's snapshot;
\* its slot 1 and the slot of S2 are empty with default buffers
C14_Witness ==
    \E e \in Elements :
        /\ exc = None
        /\ size["S1"] = 2
        /\ assignedObjects["S1"] = <<e, None>>
        /\ assignedObjects["S2"] = <<None>>
        /\ IsSnapshot(State, "S1", 0, fields[e])
        /\ ~IsDefault(State, "S1", 0)
        /\ IsDefault(State, "S1", 1)
        /\ IsDefault(State, "S2", 0)

\* ------------------------------------------------------------------- C15
\* C15: objectChanged(obj) on an array that obj notifies (one of its
\* referencedLists), returned or raised, leaves every slot storing what it
\* stored and every referencedLists as it was, so the list that
\* onPropertyChanged iterates is not changed under it; the list names an array
\* once, so the whole fan-out refreshes each array once and also changes no
\* slot and no list; and objectChanged(obj) on an array that holds obj in no
\* slot changes nothing at all, buffers included.
C15_ObjectChangedKeepsBookkeeping ==
    /\ \A e \in Elements : \A s \in Arrays :
          /\ Listed(State, e, s) =>
                \A st \in {ObjectChanged(State, s, e)} :
                    /\ st.assignedObjects = assignedObjects
                    /\ st.referencedLists = referencedLists
          /\ ~Held(State, s, e) => ObjectChanged(State, s, e) = State
          /\ Cardinality({k \in 1..Len(referencedLists[e]) : referencedLists[e][k] = s}) <= 1
    /\ \A e \in Elements : \A st \in {OnPropertyChanged(State, e)} :
          /\ st.assignedObjects = assignedObjects
          /\ st.referencedLists = referencedLists

\* an element held by both arrays, with another element in S1's first slot,
\* was given new attributes and notified: its slots hold the new snapshot, the
\* slots and lists are those of the assignments
C15_Witness ==
    \E e \in Elements : \E f \in Elements \ {e} :
        /\ exc = None
        /\ assignedObjects["S1"] = <<f, e>>
        /\ assignedObjects["S2"] = <<e>>
        /\ referencedLists[e] = <<"S1", "S2">>
        /\ referencedLists[f] = <<"S1">>
        /\ fields[e] # InitFields(attributes["S1"])
        /\ IsSnapshot(State, "S1", 1, fields[e])
        /\ IsSnapshot(State, "S2", 0, fields[e])
        /\ IsSnapshot(State, "S1", 0, InitFields(attributes["S1"]))

\* ------------------------------------------------------------------- C16
\* C16: array[index] = None on a slot that stores an element, index in range,
\* returns, leaves the slot storing None, and leaves every referencedLists as
\* it was.
C16_NoneVacatesSlot ==
    \A s \in Arrays : \A index \in Slots(s) :
        assignedObjects[s][index + 1] # None =>
            \A st \in {SetItem(State, s, index, None)} :
                /\ st.exc = None
                /\ st.assignedObjects[s][index + 1] = None
                /\ st.referencedLists = referencedLists

\* ------------------------------------------------------------------- C17
\* C17: array[index] = element, for an element whose value for an
\* "array<int>(6)" attribute has fewer than 6 entries, raises, and the
\* attribute's buffer at the slot is then as it was before the call, not
\* overwritten with the entries the value has.
C17_ShortArrayNoPartialWrite ==
    \A s \in Arrays : \A index \in Slots(s) : \A value \in Elements :
        \A k \in 1..Len(attributes[s]) :
            (/\ attributes[s][k][2] = "array<int>(6)"
             /\ fields[value][attributes[s][k][1]] # Missing
             /\ Len(fields[value][attributes[s][k][1]][2]) < ArrayLen) =>
                \A st \in {SetItem(State, s, index, value)} :
                    /\ st.exc # None
                    /\ Buffer(st, s, attributes[s][k][1], index) =
                          Buffer(State, s, attributes[s][k][1], index)

\* ------------------------------------------------------------------- C18
\* C18: in every state reached by assignments (that returned, or raised for
\* the index, for None or for a missing attribute) and notifications, an
\* array that is in an element's referencedLists holds the element in some
\* slot; so every array that onPropertyChanged calls holds the element.
C18_ListedImpliesHeld ==
    \A e \in Elements : \A s \in Arrays : Listed(State, e, s) => Held(State, s, e)

\* the assignment of an element that lacks an attribute raised after it took
\* S1's slot from another element, which S2 holds: S1 is listed by the
\* element it stores and no longer by the one it stored
C18_Witness ==
    \E e \in Elements : \E f \in Elements \ {e} :
        /\ exc = "AttributeError"
        /\ LacksAttribute("S1", e)
        /\ assignedObjects["S1"] = <<e>>
        /\ assignedObjects["S2"] = <<f>>
        /\ referencedLists[e] = <<"S1">>
        /\ referencedLists[f] = <<"S2">>

\* ------------------------------------------------------------------- C19
\* C19: under assignments with any index and value (None and indices out of
\* range included), notifications, attribute writes and bindTo, a slot that
\* stores an element stores an element in every later state: no step takes a
\* slot from an element back to None.
C19_OccupancyMonotone ==
    [][\A s \in Arrays : \A index \in Slots(s) :
          assignedObjects[s][index + 1] # None => assignedObjects'[s][index + 1] # None]_vars

\* array[0] = None was called on the occupied slot of a bound one-slot array:
\* it raised and the slot still stores its element
C19_Witness ==
    \E e \in Elements : \E parent \in Parents :
        /\ exc = "AttributeError"
        /\ size["S1"] = 1
        /\ assignedObjects["S1"] = <<e>>
        /\ Listed(State, e, "S1")
        /\ parents["S1"][parent] # None

====
